---- MODULE Spec2Model ----
(***************************************************************************)
(* Model of lib/libzfs/os/macos/libzfs_util_os.c:                          *)
(*   - libzfs_load_module_impl: check /dev/<module>, optionally run the    *)
(*     loader, then poll open(ZFS_DEV) until it works or the timeout ends; *)
(*   - execvpe / execvPe: PATH search with shell fallback.                 *)
(* Strings are sequences of one-character strings.  The clock is the       *)
(* monotonic clock in milliseconds, counted from the entry of the call.    *)
(* Time passes only in the loader child, in sched_yield and in usleep;     *)
(* access, getenv, open and close take no clock time.                      *)
(***************************************************************************)
EXTENDS Integers, Sequences, FiniteSets, TLC

\* ------------------------------------------------------------------------
\* errno values (Darwin numbering)
EIO == 5
ENXIO == 6
E2BIG == 7
ENOEXEC == 8
ENOMEM == 12
EACCES == 13
ENOTDIR == 20
ETXTBSY == 26
ELOOP == 62
ENAMETOOLONG == 63
ENOENT == 2

\* program constants
MILLISEC == 1000
busy_timeout == 10
DefaultTimeout == 10
TimeoutCeiling == 600
UsleepMs == 10
MAXPATHLEN == 1024

\* ------------------------------------------------------------------------
\* bounds of the model
MaxNow == 1100        \* the clock stops advancing in usleep past this (ms)
MaxYieldMs == 1       \* a sched_yield takes 0..MaxYieldMs ms
LoaderMs == 20        \* a loader run takes 0 or LoaderMs ms
MaxOpensCounted == 2  \* opens are counted up to this number
MaxStrLen == 3        \* longest ZFS_MODULE_TIMEOUT string of SpecTimeout
MaxPathPieces == 3    \* longest PATH, in pieces (directory names and ':')

\* a getenv() result for an unset variable, and a NULL char pointer
NULL == <<"NULL">>

MAX(a, b) == IF a > b THEN a ELSE b
MIN(a, b) == IF a < b THEN a ELSE b

VARIABLES
    \* --- environment of the readiness call
    node,         \* /dev/<module> exists (what access(path, F_OK) sees)
    dev,          \* what open(ZFS_DEV, O_RDWR) yields now: 0 or an errno
    \* --- libzfs_load_module_impl
    pc,           \* position in the function
    load,         \* local 'load'
    timeout,      \* local 'timeout' (seconds)
    timeout_str,  \* getenv("ZFS_MODULE_TIMEOUT") as read (NULL: unset)
    now,          \* clock, ms since the entry of the call
    start,        \* local 'start' (ms)
    ret,          \* returned value
    retLine,      \* source line of the return statement taken (0: none)
    \* --- history of the call
    nodeAt1,      \* result of the existence check of line 113
    nodeAt2,      \* result of the existence check of line 128
    loaderRuns,   \* number of libzfs_run_process calls
    loaderRc,     \* result of the last libzfs_run_process call
    opens,        \* number of open() calls, counted up to MaxOpensCounted
    lastOpen,     \* result of the last open(): 0, an errno, -1 before any
    slept,        \* usleep has been called
    lastWait,     \* how the last wait of the loop was spent
    child,        \* the /sbin/kextload child: "none", "running", "exited"
    fdHeld,       \* descriptors of ZFS_DEV the call holds open
    fdPeak,       \* the largest number of them held at one time
    okInTime,     \* dev is openable, and has been since before the deadline
    \* --- execvpe / execvPe
    xpc,          \* position in execvpe/execvPe
    name,         \* argument 'name'
    argv,         \* argument 'argv' (without the terminating NULL)
    pathEnv,      \* getenv("PATH") (NULL: unset)
    cur,          \* local 'cur': rest of the path list, or NULL
    bp,           \* local 'bp': the candidate passed to execve
    eacces,       \* local 'eacces'
    xerrno,       \* errno
    xret,         \* returned value (0: none yet)
    image,        \* the process image after a successful execve
    taken,        \* number of entries strsep has taken off the path list
    diag,         \* number of "path too long" diagnostics written
    log,          \* execve calls so far, each with its outcome
    \* --- two concurrent calls of libzfs_load_module_impl
    tnow,         \* clock shared by the two callers (ms)
    cpc,          \* position of each caller
    cload,        \* each caller's 'load'
    ctimeout,     \* each caller's 'timeout' (seconds)
    cstart,       \* each caller's 'start' (ms)
    cwake,        \* when the child, yield or sleep a caller waits in ends
                  \* (0 while it waits in none)
    cret,         \* each caller's returned value
    cline,        \* source line of each caller's return (0: none)
    cruns,        \* libzfs_run_process calls of each caller
    cchild,       \* each caller's child: "none", "running", "exited"
    loadersOk,    \* every child so far exited zero, the node there since
    devOk         \* dev is openable, and has been since before the
                  \* deadline of either caller

rvars == <<node, dev, pc, load, timeout, timeout_str, now, start, ret,
           retLine, nodeAt1, nodeAt2, loaderRuns, loaderRc, opens, lastOpen,
           slept, lastWait, child, fdHeld, fdPeak, okInTime>>
hvars == <<lastWait, child, fdHeld, fdPeak, okInTime>>
xvars == <<xpc, name, argv, pathEnv, cur, bp, eacces, xerrno, xret, image,
           taken, diag, log>>
tvars == <<tnow, cpc, cload, ctimeout, cstart, cwake, cret, cline, cruns,
           cchild, loadersOk, devOk>>
vars == <<rvars, xvars, tvars>>

\* ------------------------------------------------------------------------
\* Character helpers

ToUpper(c) ==
    CASE c = "y" -> "Y" [] c = "e" -> "E" [] c = "s" -> "S"
      [] c = "o" -> "O" [] c = "n" -> "N" [] OTHER -> c

\* strncasecmp(s, lit, strlen(lit)) == 0
StrNCaseEq(s, lit) ==
    /\ Len(s) >= Len(lit)
    /\ \A i \in 1..Len(lit) : ToUpper(s[i]) = ToUpper(lit[i])

DigitVal(c) ==
    CASE c = "0" -> 0 [] c = "1" -> 1 [] c = "2" -> 2 [] c = "3" -> 3
      [] c = "4" -> 4 [] c = "5" -> 5 [] c = "6" -> 6 [] c = "7" -> 7
      [] c = "8" -> 8 [] c = "9" -> 9 [] c = "a" -> 10 [] c = "b" -> 11
      [] c = "c" -> 12 [] c = "d" -> 13 [] c = "e" -> 14 [] c = "f" -> 15
      [] OTHER -> 99

IsDigitIn(c, base) == DigitVal(c) < base

\* value of the longest prefix of s made of digits of the base (the strings
\* of the model are too short to leave the range of a long)
RECURSIVE Accumulate(_, _, _)
Accumulate(s, base, acc) ==
    IF s = <<>> \/ ~IsDigitIn(Head(s), base) THEN acc
    ELSE Accumulate(Tail(s), base, acc * base + DigitVal(Head(s)))

\* strtol(s, NULL, 0)
strtol(s) ==
    LET neg == s # <<>> /\ Head(s) = "-"
        t == IF neg THEN Tail(s) ELSE s
        hex == /\ Len(t) >= 3
               /\ t[1] = "0"
               /\ t[2] = "x"
               /\ IsDigitIn(t[3], 16)
        base == IF hex THEN 16
                ELSE IF t # <<>> /\ t[1] = "0" THEN 8 ELSE 10
        digits == IF hex THEN Tail(Tail(t)) ELSE t
        mag == Accumulate(digits, base, 0)
    IN  IF neg THEN -mag ELSE mag

\* ------------------------------------------------------------------------
\* Pure parts of libzfs_load_module_impl

libzfs_module_loaded_never(n) == FALSE
libzfs_module_loaded(n) == n

LoadFromEnv(load_str) ==
    IF load_str = NULL THEN 0
    ELSE IF StrNCaseEq(load_str, <<"Y", "E", "S">>)
            \/ StrNCaseEq(load_str, <<"O", "N">>) THEN 1
    ELSE 0

ClampTimeout_swapped(t) == MIN(MAX(t, TimeoutCeiling), 0)
ClampTimeout(t) == MAX(MIN(t, TimeoutCeiling), 0)

TimeoutFromEnv(s) ==
    IF s = NULL THEN DefaultTimeout ELSE ClampTimeout(strtol(s))

Elapsed == now - start

InBusyPhase_always(elapsed) == TRUE
InBusyPhase(elapsed) == elapsed < busy_timeout

KeepWaiting_late(elapsed, t) == elapsed < (t * MILLISEC) + UsleepMs
KeepWaiting_inclusive(elapsed, t) == elapsed <= (t * MILLISEC)
KeepWaiting(elapsed, t) == elapsed < (t * MILLISEC)

\* ------------------------------------------------------------------------
\* Inputs

OpenResults == {0, ENOENT, EACCES, ENXIO}
RunResults == {0, 1, -1}
LoadStrs == { NULL, <<>>, <<"Y", "E", "S">>, <<"y", "e", "s">>,
              <<"O", "n">>, <<"n", "o">>, <<"y", "e">>, <<"o", "n", "e">>,
              <<"1">> }
TimeoutStrs == { NULL, <<"0">>, <<"1">>, <<"-", "1">>, <<"7", "0", "0">> }
TimeoutChars == {"-", "0", "1", "7", "x"}
AllTimeoutStrs ==
    {NULL} \cup UNION { [1..n -> TimeoutChars] : n \in 0..MaxStrLen }

Bump(n) == IF n < MaxOpensCounted THEN n + 1 ELSE n

\* a candidate path: entry number (0: none), directory and file name
NoCand == [idx |-> 0, dir |-> "", file |-> <<>>]
NoImage == [file |-> NoCand, args |-> <<>>]

XIdle ==
    /\ xpc = "idle"
    /\ name = <<>>
    /\ argv = <<>>
    /\ pathEnv = NULL
    /\ cur = NULL
    /\ bp = NoCand
    /\ eacces = 0
    /\ xerrno = 0
    /\ xret = 0
    /\ image = NoImage
    /\ taken = 0
    /\ diag = 0
    /\ log = <<>>

\* the two callers
Callers == {1, 2}

TIdle ==
    /\ tnow = 0
    /\ cpc = [i \in Callers |-> "idle"]
    /\ cload = [i \in Callers |-> 0]
    /\ ctimeout = [i \in Callers |-> DefaultTimeout]
    /\ cstart = [i \in Callers |-> 0]
    /\ cwake = [i \in Callers |-> 0]
    /\ cret = [i \in Callers |-> 0]
    /\ cline = [i \in Callers |-> 0]
    /\ cruns = [i \in Callers |-> 0]
    /\ cchild = [i \in Callers |-> "none"]
    /\ loadersOk = TRUE
    /\ devOk = FALSE

RLocals ==
    /\ load = 0
    /\ timeout = DefaultTimeout
    /\ timeout_str = NULL
    /\ now = 0
    /\ start = 0
    /\ ret = 0
    /\ retLine = 0
    /\ nodeAt1 = "unchecked"
    /\ nodeAt2 = "unchecked"
    /\ loaderRuns = 0
    /\ loaderRc = 0
    /\ opens = 0
    /\ lastOpen = -1
    /\ slept = FALSE
    /\ lastWait = "none"
    /\ child = "none"
    /\ fdHeld = 0
    /\ fdPeak = 0
    /\ okInTime = (dev = 0)

Init ==
    /\ node \in BOOLEAN
    /\ dev \in OpenResults
    /\ pc = "entry"
    /\ RLocals
    /\ XIdle
    /\ TIdle

\* ------------------------------------------------------------------------
\* Environment: the device node and the control device change at any time

NodeChange ==
    /\ node' = ~node
    /\ UNCHANGED hvars
    /\ UNCHANGED <<dev, pc, load, timeout, timeout_str, now, start, ret,
                   retLine, nodeAt1, nodeAt2, loaderRuns, loaderRc, opens,
                   lastOpen, slept>>
    /\ UNCHANGED <<xvars, tvars>>

\* lines 146-159: the wait has not reached its deadline
BeforeDeadline ==
    /\ pc # "done"
    /\ pc \in {"open", "wait", "cond"} => Elapsed < timeout * MILLISEC

DevChange ==
    /\ \E r \in OpenResults \ {dev} :
          /\ dev' = r
          /\ okInTime' = (r = 0 /\ BeforeDeadline)
    /\ UNCHANGED <<lastWait, child, fdHeld, fdPeak>>
    /\ UNCHANGED <<node, pc, load, timeout, timeout_str, now, start, ret,
                   retLine, nodeAt1, nodeAt2, loaderRuns, loaderRc, opens,
                   lastOpen, slept>>
    /\ UNCHANGED <<xvars, tvars>>

\* ------------------------------------------------------------------------
\* libzfs_load_module_impl, statement by statement

Return(v, line) ==
    /\ ret' = v
    /\ retLine' = line
    /\ pc' = "done"

\* line 113: if (!libzfs_module_loaded(module))
CheckLoaded ==
    /\ pc = "entry"
    /\ nodeAt1' = IF node THEN "present" ELSE "absent"
    /\ pc' = IF libzfs_module_loaded(node) THEN "getenv_timeout"
             ELSE "getenv_load"
    /\ UNCHANGED hvars
    /\ UNCHANGED <<node, dev, load, timeout, timeout_str, now, start, ret,
                   retLine, nodeAt2, loaderRuns, loaderRc, opens, lastOpen,
                   slept>>
    /\ UNCHANGED <<xvars, tvars>>

\* line 123: if (load)
LoadRequested_always(l) == TRUE
LoadRequested(l) == l # 0

\* lines 114-123: read ZFS_MODULE_LOADING, branch on 'load'
GetenvLoading ==
    /\ pc = "getenv_load"
    /\ \E s \in LoadStrs :
          /\ load' = LoadFromEnv(s)
          /\ pc' = IF LoadRequested(LoadFromEnv(s)) THEN "run_loader"
                   ELSE "recheck"
    /\ UNCHANGED hvars
    /\ UNCHANGED <<node, dev, timeout, timeout_str, now, start, ret, retLine,
                   nodeAt1, nodeAt2, loaderRuns, loaderRc, opens, lastOpen,
                   slept>>
    /\ UNCHANGED <<xvars, tvars>>

\* what follows libzfs_run_process: TRUE when the call returns ENOEXEC
LoaderFailed_ignored(rc) == FALSE
LoaderFailed(rc) == rc # 0

\* libzfs_run_process hands its result back once the child has exited
RunProcessReturns(c) == c = "exited"

\* line 124: libzfs_run_process starts /sbin/kextload
StartLoader ==
    /\ pc = "run_loader"
    /\ child = "none"
    /\ child' = "running"
    /\ loaderRuns' = loaderRuns + 1
    /\ UNCHANGED <<node, dev, pc, load, timeout, timeout_str, now, start,
                   ret, retLine, nodeAt1, nodeAt2, loaderRc, opens, lastOpen,
                   slept, lastWait, fdHeld, fdPeak, okInTime>>
    /\ UNCHANGED <<xvars, tvars>>

\* lines 124-125: the child exits, libzfs_run_process returns its result
RunLoader ==
    /\ pc = "run_loader"
    /\ child = "running"
    /\ child' = "exited"
    /\ RunProcessReturns(child')
    /\ \E rc \in RunResults, d \in {0, LoaderMs} :
          /\ loaderRc' = rc
          /\ now' = now + d
          /\ IF LoaderFailed(rc)
             THEN Return(ENOEXEC, 125)
             ELSE /\ pc' = "recheck"
                  /\ UNCHANGED <<ret, retLine>>
    /\ UNCHANGED <<node, dev, load, timeout, timeout_str, start, nodeAt1,
                   nodeAt2, loaderRuns, opens, lastOpen, slept, lastWait,
                   fdHeld, fdPeak, okInTime>>
    /\ UNCHANGED <<xvars, tvars>>

\* lines 128-129: second existence check
Recheck_skipped(n) == FALSE
RecheckFails(n) == ~libzfs_module_loaded(n)

Recheck ==
    /\ pc = "recheck"
    /\ nodeAt2' = IF node THEN "present" ELSE "absent"
    /\ IF RecheckFails(node)
       THEN Return(ENXIO, 129)
       ELSE /\ pc' = "getenv_timeout"
            /\ UNCHANGED <<ret, retLine>>
    /\ UNCHANGED hvars
    /\ UNCHANGED <<node, dev, load, timeout, timeout_str, now, start,
                   nodeAt1, loaderRuns, loaderRc, opens, lastOpen, slept>>
    /\ UNCHANGED <<xvars, tvars>>

\* lines 140-146: read ZFS_MODULE_TIMEOUT, take the start time
GetenvTimeoutFrom(S) ==
    /\ pc = "getenv_timeout"
    /\ \E s \in S :
          /\ timeout_str' = s
          /\ timeout' = TimeoutFromEnv(s)
    /\ start' = now
    /\ pc' = "open"
    /\ UNCHANGED hvars
    /\ UNCHANGED <<node, dev, load, now, ret, retLine, nodeAt1, nodeAt2,
                   loaderRuns, loaderRc, opens, lastOpen, slept>>
    /\ UNCHANGED <<xvars, tvars>>

GetenvTimeout == GetenvTimeoutFrom(TimeoutStrs)

\* line 152: an open() failure that is retried
OpenRetried_any(e) == TRUE
OpenRetried(e) == e = ENOENT

\* line 148: the descriptors that open() hands out when it yields r
Opened(r) == IF r = 0 THEN 1 ELSE 0

\* lines 149-150: the descriptors closed after open() yielded r
CloseAfterProbe_never(r) == 0
CloseAfterProbe(r) == IF r = 0 THEN 1 ELSE 0

\* lines 148-153: the readiness probe
OpenDev ==
    /\ pc = "open"
    /\ opens' = Bump(opens)
    /\ lastOpen' = dev
    /\ fdPeak' = MAX(fdPeak, fdHeld + Opened(dev))
    /\ fdHeld' = fdHeld + Opened(dev) - CloseAfterProbe(dev)
    /\ UNCHANGED <<lastWait, child, okInTime>>
    /\ IF dev = 0 THEN Return(0, 151)
       ELSE IF ~OpenRetried(dev) THEN Return(dev, 153)
       ELSE /\ pc' = "wait"
            /\ UNCHANGED <<ret, retLine>>
    /\ UNCHANGED <<node, dev, load, timeout, timeout_str, now, start,
                   nodeAt1, nodeAt2, loaderRuns, loaderRc, slept>>
    /\ UNCHANGED <<xvars, tvars>>

\* lines 154-155: busy phase
SchedYield ==
    /\ pc = "wait"
    /\ InBusyPhase(Elapsed)
    /\ \E d \in 0..MaxYieldMs : now' = now + d
    /\ pc' = "cond"
    /\ lastWait' = "yield"
    /\ UNCHANGED <<child, fdHeld, fdPeak, okInTime>>
    /\ UNCHANGED <<node, dev, load, timeout, timeout_str, start, ret,
                   retLine, nodeAt1, nodeAt2, loaderRuns, loaderRc, opens,
                   lastOpen, slept>>
    /\ UNCHANGED <<xvars, tvars>>

\* lines 156-157: sleep phase
USleep ==
    /\ pc = "wait"
    /\ ~InBusyPhase(Elapsed)
    /\ now + UsleepMs <= MaxNow
    /\ now' = now + UsleepMs
    /\ slept' = TRUE
    /\ pc' = "cond"
    /\ lastWait' = "sleep"
    /\ UNCHANGED <<child, fdHeld, fdPeak, okInTime>>
    /\ UNCHANGED <<node, dev, load, timeout, timeout_str, start, ret,
                   retLine, nodeAt1, nodeAt2, loaderRuns, loaderRc, opens,
                   lastOpen>>
    /\ UNCHANGED <<xvars, tvars>>

\* lines 159-161: loop condition and the final return
LoopCond ==
    /\ pc = "cond"
    /\ IF KeepWaiting(Elapsed, timeout)
       THEN /\ pc' = "open"
            /\ UNCHANGED <<ret, retLine>>
       ELSE Return(ENOENT, 161)
    /\ UNCHANGED hvars
    /\ UNCHANGED <<node, dev, load, timeout, timeout_str, now, start,
                   nodeAt1, nodeAt2, loaderRuns, loaderRc, opens, lastOpen,
                   slept>>
    /\ UNCHANGED <<xvars, tvars>>

Next ==
    \/ NodeChange
    \/ DevChange
    \/ CheckLoaded
    \/ GetenvLoading
    \/ StartLoader
    \/ RunLoader
    \/ Recheck
    \/ GetenvTimeout
    \/ OpenDev
    \/ SchedYield
    \/ USleep
    \/ LoopCond

Spec == Init /\ [][Next]_vars

\* ------------------------------------------------------------------------
\* The timeout parsing alone, over every short string

InitTimeout ==
    /\ node = TRUE
    /\ dev \in OpenResults
    /\ pc = "getenv_timeout"
    /\ RLocals
    /\ XIdle
    /\ TIdle

GetenvTimeoutAny == GetenvTimeoutFrom(AllTimeoutStrs)

NextTimeout == GetenvTimeoutAny

SpecTimeout == InitTimeout /\ [][NextTimeout]_vars

\* ------------------------------------------------------------------------
\* execvpe / execvPe
\*
\* A path list is a sequence of pieces: the separator ":" or a directory
\* name; two directory names are never adjacent.  A directory name stands
\* for its characters, of which only the number matters (DirLen).

DirNames == {"/a", "/b", "/long"}

DirLen(d) ==
    CASE d = "/a" -> 2
      [] d = "/b" -> 2
      [] d = "/long" -> MAXPATHLEN - 3
      [] d = "/usr/bin" -> 8
      [] d = "/bin" -> 4
      [] d = "." -> 1

_PATH_DEFPATH == <<"/usr/bin", ":", "/bin">>
_PATH_BSHELL == [idx |-> 0, dir |-> "/bin", file |-> <<"s", "h">>]

IsPathList(q) ==
    \A i \in 1..(Len(q) - 1) : q[i] = ":" \/ q[i + 1] = ":"

PathEnvs ==
    {NULL} \cup
    { q \in UNION { [1..n -> DirNames \cup {":"}] : n \in 0..MaxPathPieces } :
        IsPathList(q) }

Names == { <<>>, <<"c">>, <<"c", "c">>, <<"/", "c">>, <<"d", "/", "c">> }
Argvs == { <<>>, <<"prog">>, <<"prog", "-v">> }

ExecErrnos == {E2BIG, ELOOP, ENAMETOOLONG, ENOENT, ENOEXEC, ENOMEM, ENOTDIR,
               ETXTBSY, EACCES, EIO}

\* strchr(s, c) != NULL
strchr_never(s, c) == FALSE
strchr(s, c) == \E i \in 1..Len(s) : s[i] = c

\* lines 330-331
SearchPath_noDefault(env) == IF env = NULL THEN <<>> ELSE env
SearchPath(env) == IF env = NULL THEN _PATH_DEFPATH ELSE env

\* strsep(&cur, ":"): the token taken and the new value of cur
FirstSep(q) ==
    IF strchr(q, ":") THEN CHOOSE i \in 1..Len(q) :
                              q[i] = ":" /\ \A j \in 1..(i - 1) : q[j] # ":"
    ELSE 0

StrsepToken(q) ==
    IF FirstSep(q) = 0 THEN q ELSE SubSeq(q, 1, FirstSep(q) - 1)

StrsepRest_stuck(q) == IF FirstSep(q) = 0 THEN NULL ELSE q
StrsepRest(q) ==
    IF FirstSep(q) = 0 THEN NULL ELSE SubSeq(q, FirstSep(q) + 1, Len(q))

\* lines 243-247: an empty entry is the current directory
EntryDir(p) == IF p = <<>> THEN "." ELSE p[1]

\* line 255
TooLong_offByOne(lp, ln) == lp + ln + 1 > MAXPATHLEN
TooLong(lp, ln) == lp + ln + 2 > MAXPATHLEN

\* lines 268-314: what follows a failed execve of the candidate:
\*   "done"    goto done with errno e
\*   "next"    break: on to the next entry
\*   "shell"   exec the shell on the candidate
\*   "eacces"  record the EACCES and continue
AfterExecFailure_eaccesFatal(e, statOk) ==
    IF e \in {E2BIG, ENOMEM, ETXTBSY} THEN "done"
    ELSE IF e \in {ELOOP, ENAMETOOLONG, ENOENT, ENOTDIR} THEN "next"
    ELSE IF e = ENOEXEC THEN "shell"
    ELSE IF ~statOk THEN "next"
    ELSE "done"
AfterExecFailure_enotdirFatal(e, statOk) ==
    IF e \in {E2BIG, ENOMEM, ETXTBSY} THEN "done"
    ELSE IF e \in {ELOOP, ENAMETOOLONG, ENOENT} THEN "next"
    ELSE IF e = ENOEXEC THEN "shell"
    ELSE IF ~statOk THEN "next"
    ELSE IF e = EACCES THEN "eacces"
    ELSE "done"
AfterExecFailure(e, statOk) ==
    IF e \in {E2BIG, ENOMEM, ETXTBSY} THEN "done"
    ELSE IF e \in {ELOOP, ENAMETOOLONG, ENOENT, ENOTDIR} THEN "next"
    ELSE IF e = ENOEXEC THEN "shell"
    ELSE IF ~statOk THEN "next"
    ELSE IF e = EACCES THEN "eacces"
    ELSE "done"

\* the errors that reach the stat() of line 306
Probed(e) ==
    e \notin {E2BIG, ENOMEM, ETXTBSY, ELOOP, ENAMETOOLONG, ENOENT, ENOTDIR,
              ENOEXEC}

\* lines 316-319
FinalErrno_notFound(flag) == ENOENT
FinalErrno(flag) == IF flag # 0 THEN EACCES ELSE ENOENT

RIdle ==
    /\ node = FALSE
    /\ dev = ENOENT
    /\ pc = "idle"
    /\ RLocals
    /\ TIdle

InitExec ==
    /\ RIdle
    /\ xpc = "entry"
    /\ name \in Names
    /\ argv \in Argvs
    /\ pathEnv \in PathEnvs
    /\ cur = NULL
    /\ bp = NoCand
    /\ eacces = 0
    /\ xerrno = 0
    /\ xret = 0
    /\ image = NoImage
    /\ taken = 0
    /\ diag = 0
    /\ log = <<>>

XReturn(e) ==
    /\ xerrno' = e
    /\ xret' = -1
    /\ xpc' = "done"

\* lines 324-334 and 216-237: execvpe, then execvPe up to the loop
ExecvpeEntry ==
    /\ xpc = "entry"
    /\ eacces' = 0
    /\ IF strchr(name, "/")
       THEN /\ bp' = [idx |-> 0, dir |-> "", file |-> name]
            /\ cur' = NULL
            /\ xpc' = "retry"
            /\ UNCHANGED <<xerrno, xret>>
       ELSE IF name = <<>>
       THEN /\ XReturn(ENOENT)
            /\ UNCHANGED <<bp, cur>>
       ELSE /\ cur' = SearchPath(pathEnv)
            /\ xpc' = "loop"
            /\ UNCHANGED <<bp, xerrno, xret>>
    /\ UNCHANGED <<name, argv, pathEnv, image, taken, diag, log>>
    /\ UNCHANGED <<rvars, tvars>>

\* lines 238-265: take the next entry, skip it or build the candidate
NextEntry ==
    /\ xpc = "loop"
    /\ cur # NULL
    /\ cur' = StrsepRest(cur)
    /\ taken' = taken + 1
    /\ LET dir == EntryDir(StrsepToken(cur))
       IN  IF TooLong(DirLen(dir), Len(name))
           THEN /\ diag' = diag + 1
                /\ UNCHANGED <<bp, xpc>>
           ELSE /\ bp' = [idx |-> taken + 1, dir |-> dir, file |-> name]
                /\ xpc' = "retry"
                /\ UNCHANGED diag
    /\ UNCHANGED <<name, argv, pathEnv, eacces, xerrno, xret, image, log>>
    /\ UNCHANGED <<rvars, tvars>>

\* lines 238 and 316-321: the list is exhausted
SearchExhausted ==
    /\ xpc = "loop"
    /\ cur = NULL
    /\ XReturn(FinalErrno(eacces))
    /\ UNCHANGED <<name, argv, pathEnv, cur, bp, eacces, image, taken, diag,
                   log>>
    /\ UNCHANGED <<rvars, tvars>>

\* line 267, execve succeeds: the process image is replaced
ExecveReplaces ==
    /\ xpc = "retry"
    /\ image' = [file |-> bp, args |-> argv]
    /\ log' = Append(log, [cand |-> bp, err |-> 0, stat |-> "none",
                           args |-> argv])
    /\ xpc' = "replaced"
    /\ UNCHANGED <<name, argv, pathEnv, cur, bp, eacces, xerrno, xret, taken,
                   diag>>
    /\ UNCHANGED <<rvars, tvars>>

\* lines 267-314, execve fails
ExecveFails ==
    /\ xpc = "retry"
    /\ \E e \in ExecErrnos, statOk \in BOOLEAN :
          /\ ~Probed(e) => statOk
          /\ log' = Append(log, [cand |-> bp, err |-> e,
                                 stat |-> IF ~Probed(e) THEN "none"
                                          ELSE IF statOk THEN "ok"
                                          ELSE "fail",
                                 args |-> argv])
          /\ LET what == AfterExecFailure(e, statOk)
             IN  /\ what = "done" => /\ XReturn(e)
                                     /\ UNCHANGED eacces
                 /\ what = "next" => /\ xpc' = "loop"
                                     /\ xerrno' = IF Probed(e) THEN ENOENT
                                                  ELSE e
                                     /\ UNCHANGED <<xret, eacces>>
                 /\ what = "shell" => /\ xpc' = "shell"
                                      /\ xerrno' = e
                                      /\ UNCHANGED <<xret, eacces>>
                 /\ what = "eacces" => /\ xpc' = "loop"
                                       /\ eacces' = 1
                                       /\ xerrno' = e
                                       /\ UNCHANGED xret
    /\ UNCHANGED <<name, argv, pathEnv, cur, bp, image, taken, diag>>
    /\ UNCHANGED <<rvars, tvars>>

\* line 285 with cnt = 0: nothing is copied behind memp[1], so the list has
\* no terminating NULL of its own and runs on through whatever the stack
\* holds behind the alloca block, up to the first null pointer there
StackTails == { <<>>, <<"?">> }

\* lines 276-285: the argument lists of the shell that the copy can produce;
\* bcopy moves argv[1..cnt], the terminating NULL included, when cnt > 0
ShellArgs(cand, args) ==
    IF args # <<>> THEN { <<"sh", cand>> \o Tail(args) }
    ELSE { <<"sh", cand>> \o g : g \in StackTails }

\* lines 286-287: exec the shell on the candidate
ExecveShell ==
    /\ xpc = "shell"
    /\ \E memp \in ShellArgs(bp, argv) :
          \/ /\ image' = [file |-> _PATH_BSHELL, args |-> memp]
             /\ log' = Append(log, [cand |-> _PATH_BSHELL, err |-> 0,
                                    stat |-> "none", args |-> memp])
             /\ xpc' = "replaced"
             /\ UNCHANGED <<xerrno, xret>>
          \/ \E e \in ExecErrnos :
                /\ log' = Append(log, [cand |-> _PATH_BSHELL, err |-> e,
                                       stat |-> "none", args |-> memp])
                /\ XReturn(e)
                /\ UNCHANGED image
    /\ UNCHANGED <<name, argv, pathEnv, cur, bp, eacces, taken, diag>>
    /\ UNCHANGED <<rvars, tvars>>

NextExec ==
    \/ ExecvpeEntry
    \/ NextEntry
    \/ SearchExhausted
    \/ ExecveReplaces
    \/ ExecveFails
    \/ ExecveShell

SpecExec == InitExec /\ [][NextExec]_vars

\* ------------------------------------------------------------------------
\* Two callers of libzfs_load_module_impl at the same time, for the same
\* module.  They share the device node, the control device and the clock;
\* the locals of the function are each caller's own.  Time passes only while
\* every caller that has not returned is in its child, a yield or a sleep.

TwoLoadStrs == { NULL, <<"Y", "E", "S">> }
TwoTimeoutStrs == { <<"1">> }
TwoOpenResults == {0, ENOENT, EACCES}

InLoop(i) == cpc[i] \in {"open", "wait", "yielding", "sleeping", "cond"}
Waiting(i) == cpc[i] \in {"child", "yielding", "sleeping"}
CElapsed(i) == tnow - cstart[i]

\* lines 146-159: caller i has not reached the deadline of its wait
CBeforeDeadline(i) ==
    /\ cpc[i] # "done"
    /\ InLoop(i) => CElapsed(i) < ctimeout[i] * MILLISEC

InitTwo ==
    /\ node \in BOOLEAN
    /\ dev \in TwoOpenResults
    /\ pc = "idle"
    /\ RLocals
    /\ XIdle
    /\ tnow = 0
    /\ cpc = [i \in Callers |-> "entry"]
    /\ cload = [i \in Callers |-> 0]
    /\ ctimeout = [i \in Callers |-> DefaultTimeout]
    /\ cstart = [i \in Callers |-> 0]
    /\ cwake = [i \in Callers |-> 0]
    /\ cret = [i \in Callers |-> 0]
    /\ cline = [i \in Callers |-> 0]
    /\ cruns = [i \in Callers |-> 0]
    /\ cchild = [i \in Callers |-> "none"]
    /\ loadersOk = TRUE
    /\ devOk = (dev = 0)

TwoNodeChange ==
    /\ node' = ~node
    /\ loadersOk' = (loadersOk /\
                      (node' \/ \A i \in Callers : cchild[i] # "exited"))
    /\ UNCHANGED <<dev, pc, load, timeout, timeout_str, now, start, ret,
                   retLine, nodeAt1, nodeAt2, loaderRuns, loaderRc, opens,
                   lastOpen, slept, hvars>>
    /\ UNCHANGED <<tnow, cpc, cload, ctimeout, cstart, cwake, cret, cline,
                   cruns, cchild, devOk>>
    /\ UNCHANGED xvars

TwoDevChange ==
    /\ \E r \in TwoOpenResults \ {dev} :
          /\ dev' = r
          /\ devOk' = (r = 0 /\ \A i \in Callers : CBeforeDeadline(i))
    /\ UNCHANGED <<node, pc, load, timeout, timeout_str, now, start, ret,
                   retLine, nodeAt1, nodeAt2, loaderRuns, loaderRc, opens,
                   lastOpen, slept, hvars>>
    /\ UNCHANGED <<tnow, cpc, cload, ctimeout, cstart, cwake, cret, cline,
                   cruns, cchild, loadersOk>>
    /\ UNCHANGED xvars

\* caller i moves to position p
Goto(i, p) ==
    /\ cpc' = [cpc EXCEPT ![i] = p]
    /\ UNCHANGED <<cret, cline>>

\* caller i returns v at the given line
CReturn(i, v, line) ==
    /\ cret' = [cret EXCEPT ![i] = v]
    /\ cline' = [cline EXCEPT ![i] = line]
    /\ cpc' = [cpc EXCEPT ![i] = "done"]

\* line 113
TwoCheckLoaded(i) ==
    /\ cpc[i] = "entry"
    /\ Goto(i, IF libzfs_module_loaded(node) THEN "getenv_timeout"
               ELSE "getenv_load")
    /\ UNCHANGED <<tnow, cload, ctimeout, cstart, cwake, cruns, cchild,
                   loadersOk, devOk>>
    /\ UNCHANGED <<rvars, xvars>>

\* lines 114-123
TwoGetenvLoading(i) ==
    /\ cpc[i] = "getenv_load"
    /\ \E s \in TwoLoadStrs :
          /\ cload' = [cload EXCEPT ![i] = LoadFromEnv(s)]
          /\ Goto(i, IF LoadRequested(LoadFromEnv(s)) THEN "run_loader"
                     ELSE "recheck")
    /\ UNCHANGED <<tnow, ctimeout, cstart, cwake, cruns, cchild, loadersOk,
                   devOk>>
    /\ UNCHANGED <<rvars, xvars>>

\* line 124: libzfs_run_process starts the caller's /sbin/kextload
TwoStartLoader(i) ==
    /\ cpc[i] = "run_loader"
    /\ cruns' = [cruns EXCEPT ![i] = @ + 1]
    /\ cchild' = [cchild EXCEPT ![i] = "running"]
    /\ \E d \in {0, LoaderMs} : cwake' = [cwake EXCEPT ![i] = tnow + d]
    /\ Goto(i, "child")
    /\ UNCHANGED <<tnow, cload, ctimeout, cstart, loadersOk, devOk>>
    /\ UNCHANGED <<rvars, xvars>>

\* lines 124-125: the child exits, libzfs_run_process returns its result
TwoRunLoader(i) ==
    /\ cpc[i] = "child"
    /\ tnow = cwake[i]
    /\ cchild' = [cchild EXCEPT ![i] = "exited"]
    /\ RunProcessReturns(cchild'[i])
    /\ cwake' = [cwake EXCEPT ![i] = 0]
    /\ \E rc \in RunResults :
          /\ loadersOk' = (loadersOk /\ rc = 0 /\ node)
          /\ IF LoaderFailed(rc) THEN CReturn(i, ENOEXEC, 125)
             ELSE Goto(i, "recheck")
    /\ UNCHANGED <<tnow, cload, ctimeout, cstart, cruns, devOk>>
    /\ UNCHANGED <<rvars, xvars>>

\* lines 128-129
TwoRecheck(i) ==
    /\ cpc[i] = "recheck"
    /\ IF RecheckFails(node) THEN CReturn(i, ENXIO, 129)
       ELSE Goto(i, "getenv_timeout")
    /\ UNCHANGED <<tnow, cload, ctimeout, cstart, cwake, cruns, cchild,
                   loadersOk, devOk>>
    /\ UNCHANGED <<rvars, xvars>>

\* lines 140-146
TwoGetenvTimeout(i) ==
    /\ cpc[i] = "getenv_timeout"
    /\ \E s \in TwoTimeoutStrs :
          ctimeout' = [ctimeout EXCEPT ![i] = TimeoutFromEnv(s)]
    /\ cstart' = [cstart EXCEPT ![i] = tnow]
    /\ Goto(i, "open")
    /\ UNCHANGED <<tnow, cload, cwake, cruns, cchild, loadersOk, devOk>>
    /\ UNCHANGED <<rvars, xvars>>

\* lines 148-153
TwoOpenDev(i) ==
    /\ cpc[i] = "open"
    /\ IF dev = 0 THEN CReturn(i, 0, 151)
       ELSE IF ~OpenRetried(dev) THEN CReturn(i, dev, 153)
       ELSE Goto(i, "wait")
    /\ UNCHANGED <<tnow, cload, ctimeout, cstart, cwake, cruns, cchild,
                   loadersOk, devOk>>
    /\ UNCHANGED <<rvars, xvars>>

\* lines 154-155: sched_yield is entered
TwoSchedYield(i) ==
    /\ cpc[i] = "wait"
    /\ InBusyPhase(CElapsed(i))
    /\ \E d \in 0..MaxYieldMs : cwake' = [cwake EXCEPT ![i] = tnow + d]
    /\ Goto(i, "yielding")
    /\ UNCHANGED <<tnow, cload, ctimeout, cstart, cruns, cchild, loadersOk,
                   devOk>>
    /\ UNCHANGED <<rvars, xvars>>

\* lines 156-157: usleep is entered
TwoUSleep(i) ==
    /\ cpc[i] = "wait"
    /\ ~InBusyPhase(CElapsed(i))
    /\ cwake' = [cwake EXCEPT ![i] = tnow + UsleepMs]
    /\ Goto(i, "sleeping")
    /\ UNCHANGED <<tnow, cload, ctimeout, cstart, cruns, cchild, loadersOk,
                   devOk>>
    /\ UNCHANGED <<rvars, xvars>>

\* lines 155, 157: sched_yield or usleep returns
TwoWake(i) ==
    /\ cpc[i] \in {"yielding", "sleeping"}
    /\ tnow = cwake[i]
    /\ cwake' = [cwake EXCEPT ![i] = 0]
    /\ Goto(i, "cond")
    /\ UNCHANGED <<tnow, cload, ctimeout, cstart, cruns, cchild, loadersOk,
                   devOk>>
    /\ UNCHANGED <<rvars, xvars>>

\* lines 159-161
TwoLoopCond(i) ==
    /\ cpc[i] = "cond"
    /\ IF KeepWaiting(CElapsed(i), ctimeout[i]) THEN Goto(i, "open")
       ELSE CReturn(i, ENOENT, 161)
    /\ UNCHANGED <<tnow, cload, ctimeout, cstart, cwake, cruns, cchild,
                   loadersOk, devOk>>
    /\ UNCHANGED <<rvars, xvars>>

\* the clock moves on to the next end of a child, yield or sleep
TwoTick ==
    /\ \E i \in Callers : Waiting(i)
    /\ \A i \in Callers : Waiting(i) \/ cpc[i] = "done"
    /\ \A i \in Callers : Waiting(i) => cwake[i] > tnow
    /\ \E i \in Callers :
          /\ Waiting(i)
          /\ \A j \in Callers : Waiting(j) => cwake[i] <= cwake[j]
          /\ tnow' = cwake[i]
    /\ UNCHANGED <<cpc, cload, ctimeout, cstart, cwake, cret, cline, cruns,
                   cchild, loadersOk, devOk>>
    /\ UNCHANGED <<rvars, xvars>>

NextTwo ==
    \/ TwoNodeChange
    \/ TwoDevChange
    \/ \E i \in Callers : TwoCheckLoaded(i)
    \/ \E i \in Callers : TwoGetenvLoading(i)
    \/ \E i \in Callers : TwoStartLoader(i)
    \/ \E i \in Callers : TwoRunLoader(i)
    \/ \E i \in Callers : TwoRecheck(i)
    \/ \E i \in Callers : TwoGetenvTimeout(i)
    \/ \E i \in Callers : TwoOpenDev(i)
    \/ \E i \in Callers : TwoSchedYield(i)
    \/ \E i \in Callers : TwoUSleep(i)
    \/ \E i \in Callers : TwoWake(i)
    \/ \E i \in Callers : TwoLoopCond(i)
    \/ TwoTick

SpecTwo == InitTwo /\ [][NextTwo]_vars

\* ------------------------------------------------------------------------
\* Properties of libzfs_load_module_impl

InWaitLoop == pc \in {"open", "wait", "cond"}
ReturnedFromLoop == pc = "done" /\ retLine \in {151, 153, 161}

\* C1 (as stated): whenever the device node exists at the entry of the call,
\* the call returns 0, whatever the later open of the control device reports.
C1_Original ==
    (pc = "done" /\ nodeAt1 = "present") => ret = 0

\* C1 (amended): when the device node exists at the entry of the call, the
\* loader is not run, ZFS_MODULE_LOADING is not consulted and there is no
\* second existence check; the call goes to the wait loop and returns what the
\* last open of the control device reported: 0 only if that open succeeded.
C1_Amended ==
    nodeAt1 = "present" =>
        /\ loaderRuns = 0
        /\ load = 0
        /\ nodeAt2 = "unchecked"
        /\ pc \in {"getenv_timeout", "open", "wait", "cond", "done"}
        /\ pc = "done" => /\ retLine \in {151, 153, 161}
                          /\ opens >= 1
                          /\ ret = lastOpen

C1_Witness ==
    /\ pc = "done"
    /\ nodeAt1 = "present"
    /\ lastOpen = EACCES
    /\ ret = EACCES

\* C2 (as stated): with loading disabled and the node absent at the entry of
\* the call, the call never enters the wait loop (no open is attempted) and
\* returns ENXIO, even if the node appears during the call.
C2_Original ==
    (nodeAt1 = "absent" /\ load = 0) =>
        /\ pc \in {"getenv_load", "recheck", "done"}
        /\ opens = 0
        /\ pc = "done" => ret = ENXIO

\* C2 (amended): with loading disabled and the node absent at the entry of
\* the call, the loader is not run; the call returns ENXIO without entering
\* the wait loop when the node is still absent at the second existence check,
\* and enters the wait loop when the node has appeared by then.
C2_Amended ==
    (nodeAt1 = "absent" /\ load = 0) =>
        /\ loaderRuns = 0
        /\ nodeAt2 = "unchecked" => pc \in {"getenv_load", "recheck"}
        /\ nodeAt2 = "absent" => /\ pc = "done"
                                  /\ ret = ENXIO
                                  /\ retLine = 129
                                  /\ opens = 0
                                  /\ lastOpen = -1
        /\ nodeAt2 = "present" =>
               /\ (pc = "getenv_timeout" \/ InWaitLoop \/ ReturnedFromLoop)
               /\ pc = "done" => opens >= 1

C2_Witness ==
    /\ pc = "done"
    /\ nodeAt1 = "absent"
    /\ load = 0
    /\ nodeAt2 = "absent"
    /\ ret = ENXIO

\* C3 (as stated): on every path, the loader path included, the clock counted
\* from the entry of the call never passes timeout seconds plus one polling
\* interval before the call has returned.
C3_Original ==
    now <= (timeout * MILLISEC) + 10

\* C3 (amended): counted from the start of the wait loop (line 146, after any
\* loader run has ended), the call has returned before timeout seconds plus
\* one polling interval have elapsed.
C3_Amended ==
    (InWaitLoop \/ ReturnedFromLoop) =>
        /\ timeout \in 0..600
        /\ now - start < (timeout * MILLISEC) + 10

C3_Witness ==
    /\ pc = "done"
    /\ retLine = 161
    /\ loaderRuns = 1
    /\ timeout = 1
    /\ now - start >= 1000

\* C6: in the wait loop an open that fails with an errno other than ENOENT
\* ends the call at once with that errno (no later open); the loop goes on
\* only after an ENOENT failure.
C6_OnlyEnoentRetried ==
    /\ lastOpen \notin {-1, 0, ENOENT} => /\ pc = "done"
                                           /\ retLine = 153
                                           /\ ret = lastOpen
    /\ pc \in {"wait", "cond"} => lastOpen = ENOENT
    /\ (pc = "open" /\ opens > 0) => lastOpen = ENOENT
    /\ retLine = 153 => ret \notin {0, ENOENT}

C6_Witness ==
    /\ pc = "done"
    /\ retLine = 153
    /\ ret = EACCES
    /\ opens = 2
    /\ now - start < timeout * MILLISEC

IsDecimalDigit(c) == c \in {"0", "1", "2", "3", "4", "5", "6", "7", "8", "9"}

IsDecimal(s) ==
    LET t == IF s # <<>> /\ s[1] = "-" THEN Tail(s) ELSE s
    IN  /\ t # <<>>
        /\ \A i \in 1..Len(t) : IsDecimalDigit(t[i])
        /\ Len(t) > 1 => t[1] # "0"

RECURSIVE DecimalMagnitude(_)
DecimalMagnitude(t) ==
    IF t = <<>> THEN 0
    ELSE 10 * DecimalMagnitude(SubSeq(t, 1, Len(t) - 1))
         + (CHOOSE d \in 0..9 : DigitVal(t[Len(t)]) = d)

DecimalValue(s) ==
    IF s[1] = "-" THEN 0 - DecimalMagnitude(Tail(s)) ELSE DecimalMagnitude(s)

\* C8: the effective timeout is 10 when ZFS_MODULE_TIMEOUT is unset, and for
\* a variable holding the integer v it is 600 when v > 600, 0 when v < 0 and
\* v otherwise; it always lies in 0..600.
C8_TimeoutClamped ==
    /\ timeout \in 0..600
    /\ pc = "open" =>
          IF timeout_str = NULL THEN timeout = 10
          ELSE IsDecimal(timeout_str) =>
                 LET v == DecimalValue(timeout_str)
                 IN  timeout = IF v > 600 THEN 600
                               ELSE IF v < 0 THEN 0 ELSE v

C8_Witness ==
    /\ pc = "open"
    /\ timeout_str = <<"7", "0", "0">>
    /\ timeout = 600

Searching == xpc # "entry" /\ name # <<>> /\ ~strchr(name, "/")

ThePath == IF pathEnv = NULL THEN <<"/usr/bin", ":", "/bin">> ELSE pathEnv

\* the entries of a path list, numbered from 1
NumEntries(q) == 1 + Cardinality({ i \in 1..Len(q) : q[i] = ":" })

EntryOfPiece(q, i) == 1 + Cardinality({ j \in 1..(i - 1) : q[j] = ":" })

DirOfEntry(q, k) ==
    LET at == { i \in 1..Len(q) : q[i] # ":" /\ EntryOfPiece(q, i) = k }
    IN  IF at = {} THEN "." ELSE q[CHOOSE i \in at : TRUE]

\* entry k, '/', the name and the terminator fit the path buffer
EntryFits(k) == DirLen(DirOfEntry(ThePath, k)) + Len(name) + 2 <= 1024

\* an execve of a candidate of the list (not of the shell)
OfList(item) == item.cand.idx > 0

\* a failure after which execvPe is meant to go on with the next entry
Absorbed(item) ==
    \/ item.err \in {ELOOP, ENAMETOOLONG, ENOENT, ENOTDIR}
    \/ item.stat = "fail"
    \/ item.err = EACCES /\ item.stat = "ok"

Tried(k) == \E i \in 1..Len(log) : OfList(log[i]) /\ log[i].cand.idx = k

\* C4: an entry whose execve fails with EACCES (or with another absorbed
\* error) does not stop the search: the call returns after such failures only
\* when every entry of the list has been taken and every entry that fits the
\* buffer has been tried and has failed; an execve that succeeds after such
\* failures replaces the process image with that candidate and nothing is
\* returned.
C4_EaccesDoesNotStop ==
    Searching =>
        /\ \A i, j \in 1..Len(log) :
              (i < j /\ OfList(log[j])) => OfList(log[i]) /\ Absorbed(log[i])
        /\ (xpc = "done" /\ \A i \in 1..Len(log) : Absorbed(log[i])) =>
              /\ cur = NULL
              /\ taken = NumEntries(ThePath)
              /\ \A k \in 1..NumEntries(ThePath) : EntryFits(k) => Tried(k)
              /\ \A i \in 1..Len(log) : log[i].err # 0
        /\ (xpc = "replaced" /\ OfList(log[Len(log)])) =>
              /\ log[Len(log)].err = 0
              /\ image.file = log[Len(log)].cand
              /\ image.file.dir = DirOfEntry(ThePath, image.file.idx)
              /\ image.file.file = name
              /\ xret = 0

C4_Witness ==
    /\ xpc = "replaced"
    /\ pathEnv = <<"/a", ":", "/b">>
    /\ Len(log) = 2
    /\ log[1].err = EACCES
    /\ log[1].stat = "ok"
    /\ log[1].cand.dir = "/a"
    /\ image.file.dir = "/b"
    /\ xret = 0

\* every entry of the list was tried and failed with EACCES, and the search
\* has ended
AllDenied ==
    /\ Searching
    /\ xpc = "done"
    /\ taken = NumEntries(ThePath)
    /\ Len(log) = NumEntries(ThePath)
    /\ \A i \in 1..Len(log) : log[i].err = EACCES /\ log[i].cand.idx = i

\* C5 (as stated): when the execve of every entry's candidate fails with
\* EACCES, the call returns EACCES, whether the stat of the candidate
\* succeeds or fails.
C5_Original ==
    AllDenied => xret = -1 /\ xerrno = EACCES

\* C5 (amended): when the execve of every entry's candidate fails with
\* EACCES, the call returns EACCES if the stat of at least one candidate
\* succeeded, and ENOENT if the stat failed on every candidate.
C5_Amended ==
    AllDenied =>
        /\ xret = -1
        /\ (\E i \in 1..Len(log) : log[i].stat = "ok") => xerrno = EACCES
        /\ (\A i \in 1..Len(log) : log[i].stat = "fail") => xerrno = ENOENT

C5_Witness ==
    /\ AllDenied
    /\ Len(log) = 2
    /\ log[1].stat = "ok"
    /\ log[2].stat = "fail"
    /\ xerrno = EACCES

\* C10: an entry that does not fit the path buffer is never passed to execve;
\* each such entry taken so far produced one diagnostic; the entries that fit
\* are tried in the order of the list; the permission-denied flag is set only
\* by an EACCES whose stat succeeded; a search in which every entry is skipped
\* ends with ENOENT.
C10_TooLongSkipped ==
    Searching =>
        /\ \A i \in 1..Len(log) :
              OfList(log[i]) =>
                 /\ EntryFits(log[i].cand.idx)
                 /\ log[i].cand.dir = DirOfEntry(ThePath, log[i].cand.idx)
        /\ xpc = "retry" => EntryFits(bp.idx) /\ bp.idx = taken
        /\ diag = Cardinality({ k \in 1..taken : ~EntryFits(k) })
        /\ \A k \in 1..taken :
              EntryFits(k) => Tried(k) \/ (xpc = "retry" /\ bp.idx = k)
        /\ \A i, j \in 1..Len(log) :
              (i < j /\ OfList(log[j])) => log[i].cand.idx < log[j].cand.idx
        /\ eacces = 1 <=>
              \E i \in 1..Len(log) : log[i].err = EACCES /\ log[i].stat = "ok"
        /\ (xpc = "done" /\ log = <<>>) =>
              /\ taken = NumEntries(ThePath)
              /\ diag = taken
              /\ xerrno = ENOENT
              /\ xret = -1

C10_Witness ==
    /\ Searching
    /\ diag = 1
    /\ ~EntryFits(1)
    /\ Len(log) = 1
    /\ log[1].cand.idx = 2
    /\ xpc = "done"

\* the name holds a path separator
HasSlash == \E i \in 1..Len(name) : name[i] = "/"

TheName == [idx |-> 0, dir |-> "", file |-> name]
TheShell == [idx |-> 0, dir |-> "/bin", file |-> <<"s", "h">>]

\* C11: when the name holds a '/', no entry of the path list is taken: the
\* name itself is the only candidate passed to execve, once, whatever PATH
\* is; when that execve fails the call returns without searching (the only
\* other execve is the shell fallback after ENOEXEC).
C11_SlashBypassesSearch ==
    (HasSlash /\ xpc # "entry") =>
        /\ taken = 0
        /\ diag = 0
        /\ cur = NULL
        /\ xpc \in {"retry", "loop", "shell", "done", "replaced"}
        /\ xpc = "retry" => bp = TheName /\ log = <<>>
        /\ xpc # "retry" => /\ Len(log) \in {1, 2}
                            /\ log[1].cand = TheName
        /\ Len(log) = 2 => /\ log[1].err = ENOEXEC
                           /\ log[2].cand = TheShell
        /\ xpc = "done" => xret = -1 /\ xerrno # 0
        /\ xpc = "replaced" => image.file \in {TheName, TheShell}

C11_Witness ==
    /\ HasSlash
    /\ pathEnv = <<"/a", ":", "/b">>
    /\ xpc = "done"
    /\ Len(log) = 1
    /\ log[1].err = ENOENT
    /\ xerrno = ENOENT

\* the candidates built so far, with their entry numbers
CandidatesSoFar ==
    { log[i].cand : i \in { j \in 1..Len(log) : OfList(log[j]) } }
    \cup (IF xpc = "retry" THEN {bp} ELSE {})

\* C12 (as stated): with PATH unset or set to the empty string, the default
\* path list is searched, not the current directory.
C12_Original ==
    (Searching /\ pathEnv \in {NULL, <<>>}) =>
        \A c \in CandidatesSoFar :
            \/ c.idx = 1 /\ c.dir = "/usr/bin"
            \/ c.idx = 2 /\ c.dir = "/bin"

\* C12 (amended): with PATH unset the default path list is searched, in its
\* order; with PATH set to the empty string the list has one empty entry and
\* the only candidate is in the current directory.
C12_Amended ==
    /\ (Searching /\ pathEnv = NULL) =>
          /\ \A c \in CandidatesSoFar :
                \/ c.idx = 1 /\ c.dir = "/usr/bin"
                \/ c.idx = 2 /\ c.dir = "/bin"
          /\ taken <= 2
          /\ (xpc = "done" /\ \A i \in 1..Len(log) : Absorbed(log[i])) =>
                taken = 2 /\ Len(log) = 2
    /\ (Searching /\ pathEnv = <<>>) =>
          /\ \A c \in CandidatesSoFar : c.idx = 1 /\ c.dir = "."
          /\ taken <= 1
          /\ xpc \in {"done", "replaced", "shell"} => log[1].cand.dir = "."

C12_Witness ==
    /\ Searching
    /\ pathEnv = NULL
    /\ xpc = "replaced"
    /\ Len(log) = 2
    /\ log[1].cand.dir = "/usr/bin"
    /\ image.file.dir = "/bin"

\* the execve of a candidate (not of the shell) that this step made
CandidateExec ==
    /\ Len(log') = Len(log) + 1
    /\ log'[Len(log')].cand # TheShell

LastErr == log'[Len(log')].err
LastStat == log'[Len(log')].stat

Aborted(e) == xpc' = "done" /\ xret' = -1 /\ xerrno' = e /\ eacces' = eacces
NextEntryFollows == xpc' = "loop" /\ xret' = 0 /\ eacces' = eacces
ProbedThen(e) ==
    /\ LastStat \in {"ok", "fail"}
    /\ LastStat = "fail" => NextEntryFollows
    /\ (LastStat = "ok" /\ e = EACCES) =>
          xpc' = "loop" /\ xret' = 0 /\ eacces' = 1
    /\ (LastStat = "ok" /\ e # EACCES) => Aborted(e)

\* C13 (as stated): the step after each execve failure of a candidate is the
\* one of the table, ETXTBSY being among the errors that lead to the
\* file-status probe.
C13_Original ==
    [][CandidateExec =>
         /\ LastErr = 0 => xpc' = "replaced"
         /\ LastErr \in {E2BIG, ENOMEM} => Aborted(LastErr)
         /\ LastErr \in {ELOOP, ENAMETOOLONG, ENOENT, ENOTDIR} =>
               NextEntryFollows
         /\ LastErr = ENOEXEC => xpc' = "shell"
         /\ LastErr \in {ETXTBSY, EACCES, EIO} => ProbedThen(LastErr)]_vars

\* C13 (amended): the step after each execve failure of a candidate is the
\* one of the table, with ETXTBSY aborting the search like E2BIG and ENOMEM,
\* without a file-status probe; the other errors (EACCES, EIO) lead to the
\* probe.
C13_Amended ==
    [][CandidateExec =>
         /\ LastErr = 0 => xpc' = "replaced"
         /\ LastErr \in {E2BIG, ENOMEM, ETXTBSY} =>
               Aborted(LastErr) /\ LastStat = "none"
         /\ LastErr \in {ELOOP, ENAMETOOLONG, ENOENT, ENOTDIR} =>
               NextEntryFollows /\ LastStat = "none"
         /\ LastErr = ENOEXEC => xpc' = "shell"
         /\ LastErr \in {EACCES, EIO} => ProbedThen(LastErr)]_vars

C13_Witness ==
    /\ Searching
    /\ xpc = "done"
    /\ Len(log) = 1
    /\ log[1].err = ETXTBSY
    /\ log[1].stat = "none"
    /\ xerrno = ETXTBSY
    /\ cur # NULL

\* C17: the entries are tried in the order of the list, each at most once;
\* an execve that succeeds is the last one and the call does not return after
\* it; every return is -1 with errno set and comes after failures only.
C17_State ==
    /\ \A i, j \in 1..Len(log) :
          (i < j /\ OfList(log[j])) => log[i].cand.idx < log[j].cand.idx
    /\ \A i \in 1..Len(log) :
          OfList(log[i]) =>
             /\ log[i].cand.idx <= taken
             /\ log[i].cand.dir = DirOfEntry(ThePath, log[i].cand.idx)
             /\ log[i].cand.file = name
    /\ \A i \in 1..(Len(log) - 1) : log[i].err # 0
    /\ xpc = "replaced" <=> (log # <<>> /\ log[Len(log)].err = 0)
    /\ xpc = "replaced" => xret = 0 /\ image.file = log[Len(log)].cand
    /\ xpc # "replaced" => image = NoImage
    /\ xpc = "done" <=> xret = -1
    /\ xpc = "done" => xerrno # 0
    /\ xpc \notin {"done", "idle"} => xret = 0

C17_InOrderOnce ==
    [](C17_State) /\ [][(xpc \in {"replaced", "done"}) => (xvars' = xvars)]_vars

C17_Witness ==
    /\ Searching
    /\ xpc = "replaced"
    /\ Len(log) = 3
    /\ log[3].cand.idx = 3
    /\ log[1].err = ENOENT
    /\ log[2].err = ENOTDIR

\* C16: an execve of a candidate that fails with ENOEXEC is followed by
\* exactly one execve, of the shell, with the arguments "sh", the candidate
\* and argv[1], argv[2], ...; when that fails the call returns -1 and no
\* later entry is tried.
C16_ShellFallback ==
    \A i \in 1..Len(log) :
       /\ (log[i].cand # TheShell /\ log[i].err = ENOEXEC) =>
             \/ i = Len(log) /\ xpc = "shell"
             \/ i + 1 = Len(log) /\ log[i + 1].cand = TheShell
       /\ log[i].cand = TheShell =>
             /\ i > 1
             /\ i = Len(log)
             /\ log[i - 1].err = ENOEXEC
             /\ log[i].args =
                   <<"sh", log[i - 1].cand>> \o SubSeq(argv, 2, Len(argv))
             /\ log[i].err # 0 => xpc = "done" /\ xret = -1
             /\ log[i].err = 0 => xpc = "replaced" /\ image.args = log[i].args

\* ------------------------------------------------------------------------
\* Further properties of libzfs_load_module_impl

\* C14: when the control device becomes openable before timeout seconds of
\* the wait have elapsed and stays openable, a call that returns from the
\* wait loop returns 0, wherever that moment falls between the polls.
C14_OpenableInTimeSucceeds ==
    (ReturnedFromLoop /\ okInTime) => ret = 0

\* C15: the loader is run at most once in a call, only after the first check
\* found the node absent and with load set, and the child has exited before
\* the first open of the control device.
C15_LoaderOnceBeforeOpen ==
    /\ loaderRuns <= 1
    /\ (loaderRuns = 0) <=> (child = "none")
    /\ loaderRuns = 1 => nodeAt1 = "absent" /\ load = 1
    /\ child = "running" => pc = "run_loader" /\ opens = 0
    /\ opens > 0 => child \in {"none", "exited"}
    /\ pc \in {"recheck", "getenv_timeout"} => child # "running"

C15_Witness ==
    /\ pc = "done"
    /\ ret = 0
    /\ loaderRuns = 1
    /\ child = "exited"
    /\ opens = 2

\* C18: a probe that fails with ENOENT is followed by a wait, which is a
\* yield while less than busy_timeout ms have elapsed and a 10 ms sleep
\* otherwise; after a sleep every later wait of the call is a sleep.
C18_BusyThenSleep ==
    [][/\ (pc = "open" /\ pc' # pc /\ lastOpen' = ENOENT) => pc' = "wait"
       /\ (pc = "wait" /\ pc' # pc) =>
             /\ pc' = "cond"
             /\ Elapsed < busy_timeout =>
                   /\ lastWait' = "yield"
                   /\ slept' = slept
                   /\ now' - now <= MaxYieldMs
             /\ Elapsed >= busy_timeout =>
                   /\ lastWait' = "sleep"
                   /\ slept'
                   /\ now' = now + UsleepMs
             /\ (lastWait = "sleep" \/ slept) => lastWait' = "sleep"]_vars

C18_Witness ==
    /\ pc = "open"
    /\ lastWait = "sleep"
    /\ lastOpen = ENOENT
    /\ Elapsed = 2 * busy_timeout

\* C19: the call holds no descriptor of the control device when it has
\* returned, whatever the return, and never more than one: the descriptor of
\* a successful probe is closed before the return of 0.
C19_NoDescriptorLeft ==
    /\ fdPeak <= 1
    /\ fdHeld <= 1
    /\ pc = "done" => fdHeld = 0
    /\ pc = "done" => retLine \in {125, 129, 151, 153, 161}
    /\ fdPeak = 1 <=> (pc = "done" /\ retLine = 151)

C19_Witness ==
    /\ pc = "done"
    /\ retLine = 151
    /\ ret = 0
    /\ fdPeak = 1
    /\ fdHeld = 0

\* ------------------------------------------------------------------------
\* Properties of two concurrent callers

BothRanLoader == \A i \in Callers : cruns[i] = 1
BothDone == \A i \in Callers : cpc[i] = "done"

\* C20: of two concurrent callers that find the node absent with loading
\* enabled, each runs the loader at most once and, when every loader run
\* exits zero with the module loaded and the control device becomes openable
\* before the deadline of either caller and stays openable, both return 0.
C20_ConcurrentCallersSucceed ==
    /\ \A i \in Callers : cruns[i] <= 1
    /\ (BothRanLoader /\ BothDone /\ loadersOk /\ devOk) =>
          \A i \in Callers : cret[i] = 0

====
